---- MODULE Spec2Model ----
(***************************************************************************)
(* A model of rmcts: the Node graph (src/src/node/mod.rs), the Tree with   *)
(* its four strategies and the search loop (src/src/tree/mod.rs), driven   *)
(* by the counting DummyState of the tree tests.                           *)
(*                                                                         *)
(* Nodes live in an arena `nodes`: a NodeRef is an index into it, 0 is the *)
(* absent value (None).  Node::new appends a record, so Len(nodes) counts  *)
(* the nodes ever created.  Rewards are exact multiples of one unit (the   *)
(* tests use 0.5, whose small sums f32 represents exactly).                *)
(***************************************************************************)
EXTENDS Integers, Sequences, FiniteSets, TLC

\* ------------------------------------------------------------- bounds
MaxActions == 2
MaxNodes == 4
MaxVisits == 2
\* search is called with at most as many rounds as the visits allowed.
MaxIterations == MaxVisits
\* The caps of the specification that runs search alone.
MaxSearchVisits == 6
MaxSearchNodes == 6

\* The reward one do_action returns, in reward units (f32 in the source).
Rewards == {-1, 1}
\* The values handed to a direct backpropagate call.
Values == {2}
\* The exploration constant handed to Tree::new.
LearningRates == {1}

None == 0
Root == 1

VARIABLES nodes, size, learning_rate, pc, iterations, leaf_node, reward,
          phases, last

vars == <<nodes, size, learning_rate, pc, iterations, leaf_node, reward,
          phases, last>>

\* ------------------------------------------------------- State contract
\* DummyState::next_action: Some(actions) while actions remain.
next_action(s) == IF s.actions = 0 THEN None ELSE s.actions

\* DummyState::do_action: one action less; the reward is action_reward.
do_action(s, a) ==
    [state |-> [s EXCEPT !.actions = s.actions - 1], reward |-> s.action_reward]

\* ------------------------------------------------------------- Node
\* Node::new: zero statistics, no parent, no children.
NewNode(action, state) ==
    [action |-> action, state |-> state, visits |-> 0, total_reward |-> 0,
     expanded |-> FALSE, children |-> <<>>, parent |-> None]

\* Node::parent: the resolved parent, None for the root.
parent(ns, n) == ns[n].parent

\* Node::set_parent
set_parent(ns, n, p) == [ns EXCEPT ![n].parent = p]

\* Node::child_at
child_at(ns, n, index) ==
    IF Len(ns[n].children) > index THEN ns[n].children[index + 1] ELSE None

\* A push that runs twice.
add_child_twice(ns, p, n) ==
    [ns EXCEPT ![p].children = Append(Append(@, n), n)]

\* Node::add_child: push onto the children sequence.
add_child(ns, p, n) == [ns EXCEPT ![p].children = Append(@, n)]

\* ------------------------------------------------------------- Tree
\* An add_node that forgets the counter.
add_node_no_count(t, node, p) ==
    LET id == Len(t.nodes) + 1
        ns0 == Append(t.nodes, node)
    IN  [nodes |-> add_child(set_parent(ns0, id, p), p, id), size |-> t.size]

\* Tree::add_node: count the node, wire the back-reference, push the child.
\* `node` is the record Node::new just built; it enters the arena here.
add_node(t, node, p) ==
    LET id == Len(t.nodes) + 1
        ns0 == Append(t.nodes, node)
    IN  [nodes |-> add_child(set_parent(ns0, id, p), p, id), size |-> t.size + 1]

\* ------------------------------------------------------------- score
\* ln(n) in thousandths, n >= 1 (f32::ln in the source).
RECURSIVE LnMilli(_)
LnMilli(n) ==
    CASE n = 1 -> 0
      [] n = 2 -> 693
      [] n = 3 -> 1099
      [] n = 4 -> 1386
      [] n = 5 -> 1609
      [] n = 6 -> 1792
      [] n = 7 -> 1946
      [] OTHER -> 693 + LnMilli(n \div 2)

\* The integer square root of x >= 0, searched in lo..hi (f32::sqrt); a
\* 32-bit x has its root below 46341.
RECURSIVE ISqrt(_, _, _)
ISqrt(x, lo, hi) ==
    IF lo >= hi THEN lo
    ELSE LET mid == (lo + hi + 1) \div 2
         IN  IF mid * mid <= x THEN ISqrt(x, mid, hi) ELSE ISqrt(x, lo, mid - 1)

NaN == [nan |-> TRUE, milli |-> 0]
Finite(m) == [nan |-> FALSE, milli |-> m]

\* Node::score, in thousandths:
\*   total_reward / visits + c * sqrt(2 * ln(parent.visits) / visits).
\* No parent: 0.  visits = 0: 0.0 / 0.0 is NaN (an unvisited node has
\* total_reward 0, see UnvisitedHasNoReward).  parent.visits = 0: ln is
\* -inf and the square root of a negative number is NaN.
score(ns, n, c) ==
    LET p == parent(ns, n)
    IN  IF p = None THEN Finite(0)
        ELSE IF ns[n].visits = 0 \/ ns[p].visits = 0 THEN NaN
        ELSE LET v == ns[n].visits
                 x == (2 * LnMilli(ns[p].visits) * 1000) \div v
             IN  Finite((ns[n].total_reward * 1000) \div v + c * ISqrt(x, 0, 46340))

\* f32::partial_cmp: no ordering when either side is NaN.
partial_cmp(x, y) ==
    IF x.nan \/ y.nan THEN "None"
    ELSE IF x.milli < y.milli THEN "Less"
    ELSE IF x.milli > y.milli THEN "Greater"
    ELSE "Equal"

unwrap_or(o, d) == IF o = "None" THEN d ELSE o

\* A closure that compares the wrong way round.
best_cmp_reversed(ns, x, y) ==
    unwrap_or(partial_cmp(Finite(ns[y].total_reward), Finite(ns[x].total_reward)),
              "Less")

\* The closure of best_child: compare by raw total_reward.
best_cmp(ns, x, y) ==
    unwrap_or(partial_cmp(Finite(ns[x].total_reward), Finite(ns[y].total_reward)),
              "Less")

\* A fold that keeps the accumulator on a tie: the first maximal element.
RECURSIVE best_fold_first(_, _, _, _)
best_fold_first(ns, ch, i, acc) ==
    IF i > Len(ch) THEN acc
    ELSE best_fold_first(ns, ch, i + 1,
                         IF best_cmp(ns, acc, ch[i]) = "Less" THEN ch[i] ELSE acc)

\* Iterator::max_by over ch[i..] with accumulator acc: the accumulator is
\* kept only when it compares Greater, so the last maximal element wins.
RECURSIVE best_fold(_, _, _, _)
best_fold(ns, ch, i, acc) ==
    IF i > Len(ch) THEN acc
    ELSE best_fold(ns, ch, i + 1,
                   IF best_cmp(ns, acc, ch[i]) = "Greater" THEN acc ELSE ch[i])

\* Node::best_child
best_child(ns, n) ==
    IF Len(ns[n].children) = 0 THEN None
    ELSE best_fold(ns, ns[n].children, 2, ns[n].children[1])

\* ------------------------------------------------------------- select
\* A closure without the override for unvisited nodes.
select_cmp_scores_only(ns, c, a, b) ==
    unwrap_or(partial_cmp(score(ns, a, c), score(ns, b, c)), "Less")

\* The closure of select: an unvisited accumulator always wins, otherwise
\* the scores decide and an unordered pair counts as Less.
select_cmp(ns, c, a, b) ==
    IF ns[a].visits = 0 THEN "Greater"
    ELSE unwrap_or(partial_cmp(score(ns, a, c), score(ns, b, c)), "Less")

RECURSIVE select_fold(_, _, _, _, _)
select_fold(ns, c, ch, i, acc) ==
    IF i > Len(ch) THEN acc
    ELSE select_fold(ns, c, ch, i + 1,
                     IF select_cmp(ns, c, acc, ch[i]) = "Greater" THEN acc ELSE ch[i])

\* The nodes the descent of select goes through, from `child` to the leaf.
RECURSIVE select_path(_, _, _)
select_path(ns, c, child) ==
    IF Len(ns[child].children) > 0
    THEN <<child>> \o
         select_path(ns, c, select_fold(ns, c, ns[child].children, 2,
                                        ns[child].children[1]))
    ELSE <<child>>

\* Tree::select: the node the descent ends at.
select(ns, c) == LET path == select_path(ns, c, Root) IN path[Len(path)]

\* ------------------------------------------------------------- expand
\* A loop that adds one child and stops (the textbook expansion).
expand_loop_once(t, node, curr_state) ==
    LET action == next_action(curr_state)
    IN  IF action # None
        THEN add_node(t, NewNode(action, do_action(t.nodes[node].state, action).state),
                      node)
        ELSE t

\* The loop of expand: one child per action curr_state still offers; the
\* child's state is the node's own state advanced by that action.
RECURSIVE expand_loop(_, _, _)
expand_loop(t, node, curr_state) ==
    LET action == next_action(curr_state)
    IN  IF action # None
        THEN LET state == do_action(t.nodes[node].state, action).state
                 next_state == do_action(curr_state, action).state
             IN  expand_loop(add_node(t, NewNode(action, state), node), node,
                             next_state)
        ELSE t

\* Tree::expand: the tree after the loop and the child at index 0.
expand(t, node) ==
    LET t2 == expand_loop(t, node, t.nodes[node].state)
    IN  [nodes |-> t2.nodes, size |-> t2.size, ret |-> child_at(t2.nodes, node, 0)]

\* ------------------------------------------------------------- simulate
\* A rollout that stops one action short of the end.
RECURSIVE simulate_loop_short(_, _)
simulate_loop_short(total_reward, current_state) ==
    LET action == next_action(current_state)
    IN  IF action # None /\ current_state.actions > 1
        THEN LET step == do_action(current_state, action)
             IN  simulate_loop_short(total_reward + step.reward, step.state)
        ELSE total_reward

\* The loop of simulate: sum the rewards until no action remains.
RECURSIVE simulate_loop(_, _)
simulate_loop(total_reward, current_state) ==
    LET action == next_action(current_state)
    IN  IF action # None
        THEN LET step == do_action(current_state, action)
             IN  simulate_loop(total_reward + step.reward, step.state)
        ELSE total_reward

\* Tree::simulate
simulate(ns, node) == simulate_loop(0, ns[node].state)

\* -------------------------------------------------------- backpropagate
\* A walk that stops at the root without updating it.
RECURSIVE backpropagate_below_root(_, _, _)
backpropagate_below_root(ns, child, value) ==
    LET p == parent(ns, child)
    IN  IF p = None THEN ns
        ELSE backpropagate_below_root(
                 [ns EXCEPT ![child].total_reward = @ + value,
                            ![child].visits = @ + 1], p, value)

\* A walk that adds the reward and forgets the visit.
RECURSIVE backpropagate_reward_only(_, _, _)
backpropagate_reward_only(ns, child, value) ==
    LET ns1 == [ns EXCEPT ![child].total_reward = @ + value]
        p == parent(ns1, child)
    IN  IF p = None THEN ns1 ELSE backpropagate_reward_only(ns1, p, value)

\* Tree::backpropagate: update the node, then its parent, up to the root.
RECURSIVE backpropagate(_, _, _)
backpropagate(ns, child, value) ==
    LET ns1 == [ns EXCEPT ![child].total_reward = @ + value,
                          ![child].visits = @ + 1]
        p == parent(ns1, child)
    IN  IF p = None THEN ns1 ELSE backpropagate(ns1, p, value)

\* ------------------------------------------------------------- search
\* A round that expands whatever the visits of the selected node.
should_expand_always(ns, leaf) == TRUE

\* The test of search on the selected node: leaf_node.visits > 0.
should_expand(ns, leaf) == ns[leaf].visits > 0

\* ------------------------------------------------------------- actions
\* `last` records the latest call or phase: its name, its node argument,
\* its value argument, what it returned and, for select, the descent.
\* `phases` logs the phases of the current round of search.
NoOp == [op |-> "new", node |-> None, value |-> 0, ret |-> None, path |-> <<>>]
Op(o, n, v, r, p) == [op |-> o, node |-> n, value |-> v, ret |-> r, path |-> p]

TypeOK ==
    /\ size \in Nat
    /\ pc \in {"idle", "loop", "selected", "simulate", "backpropagate"}
    /\ leaf_node \in 0..Len(nodes)
    /\ iterations \in 0..MaxIterations

\* Tree::new
Init ==
    /\ \E a \in 0..MaxActions, r \in Rewards :
          nodes = <<NewNode(0, [actions |-> a, action_reward |-> r])>>
    /\ size = 1
    /\ learning_rate \in LearningRates
    /\ pc = "idle"
    /\ iterations = 0
    /\ leaf_node = None
    /\ reward = 0
    /\ phases = <<>>
    /\ last = NoOp

\* A caller's add_node(Node::new(action, state), parent), with the action
\* and state the node tests' build_1depth_tree gives a child: the parent's
\* next action and a clone of its state advanced by it (a plain clone when
\* the parent's state has no action left).
AddNode(p) ==
    /\ pc = "idle"
    /\ Len(nodes) < MaxNodes
    /\ LET a == next_action(nodes[p].state)
           s == IF a # None THEN do_action(nodes[p].state, a).state
                ELSE nodes[p].state
           t == add_node([nodes |-> nodes, size |-> size], NewNode(a, s), p)
       IN  /\ nodes' = t.nodes
           /\ size' = t.size
           /\ last' = Op("add_node", p, 0, Len(t.nodes), <<>>)
    /\ UNCHANGED <<learning_rate, pc, iterations, leaf_node, reward, phases>>

\* A caller's expand(node), on any node of the tree.
Expand(n) ==
    /\ pc = "idle"
    /\ Len(nodes) + nodes[n].state.actions <= MaxNodes
    /\ LET t == expand([nodes |-> nodes, size |-> size], n)
       IN  /\ nodes' = t.nodes
           /\ size' = t.size
           /\ last' = Op("expand", n, 0, t.ret, <<>>)
    /\ UNCHANGED <<learning_rate, pc, iterations, leaf_node, reward, phases>>

\* A caller's select().
Select ==
    /\ pc = "idle"
    /\ last' = Op("select", None, 0, select(nodes, learning_rate),
                  select_path(nodes, learning_rate, Root))
    /\ UNCHANGED <<nodes, size, learning_rate, pc, iterations, leaf_node, reward,
                   phases>>

\* A caller's simulate(node).
Simulate(n) ==
    /\ pc = "idle"
    /\ last' = Op("simulate", n, 0, simulate(nodes, n), <<>>)
    /\ UNCHANGED <<nodes, size, learning_rate, pc, iterations, leaf_node, reward,
                   phases>>

\* A caller's backpropagate(node, value).
Backpropagate(n, value) ==
    /\ pc = "idle"
    /\ nodes[Root].visits < MaxVisits
    /\ nodes' = backpropagate(nodes, n, value)
    /\ last' = Op("backpropagate", n, value, None, <<>>)
    /\ UNCHANGED <<size, learning_rate, pc, iterations, leaf_node, reward, phases>>

\* A caller's best_child() on a node.
BestChild(n) ==
    /\ pc = "idle"
    /\ last' = Op("best_child", n, 0, best_child(nodes, n), <<>>)
    /\ UNCHANGED <<nodes, size, learning_rate, pc, iterations, leaf_node, reward,
                   phases>>

\* search(iterations): entering the for loop.
SearchBegin(n) ==
    /\ pc = "idle"
    /\ pc' = "loop"
    /\ iterations' = n
    /\ phases' = <<>>
    /\ last' = Op("search_begin", None, n, None, <<>>)
    /\ UNCHANGED <<nodes, size, learning_rate, leaf_node, reward>>

\* One round begins: leaf_node = self.select().  select always returns
\* Some node, so the `None => break` arm of the match is never taken.
SearchSelect(max_visits) ==
    /\ pc = "loop"
    /\ iterations > 0
    /\ nodes[Root].visits < max_visits
    /\ LET path == select_path(nodes, learning_rate, Root)
           x == select(nodes, learning_rate)
       IN  /\ leaf_node' = x
           /\ phases' = <<[phase |-> "select", node |-> x,
                           visits |-> nodes[x].visits, ret |-> x]>>
           /\ last' = Op("select", None, 0, x, path)
    /\ pc' = "selected"
    /\ UNCHANGED <<nodes, size, learning_rate, iterations, reward>>

\* leaf_node.visits > 0: expand it and go on with the child it returns,
\* or with leaf_node itself when it returns none.
SearchExpand(max_nodes) ==
    /\ pc = "selected"
    /\ should_expand(nodes, leaf_node)
    /\ Len(nodes) + nodes[leaf_node].state.actions <= max_nodes
    /\ LET t == expand([nodes |-> nodes, size |-> size], leaf_node)
       IN  /\ nodes' = t.nodes
           /\ size' = t.size
           /\ leaf_node' = IF t.ret # None THEN t.ret ELSE leaf_node
           /\ phases' = Append(phases, [phase |-> "expand", node |-> leaf_node,
                                        visits |-> nodes[leaf_node].visits,
                                        ret |-> t.ret])
           /\ last' = Op("expand", leaf_node, 0, t.ret, <<>>)
    /\ pc' = "simulate"
    /\ UNCHANGED <<learning_rate, iterations, reward>>

\* leaf_node.visits == 0: no expansion.
SearchNoExpand ==
    /\ pc = "selected"
    /\ ~should_expand(nodes, leaf_node)
    /\ pc' = "simulate"
    /\ last' = Op("no_expand", leaf_node, 0, None, <<>>)
    /\ UNCHANGED <<nodes, size, learning_rate, iterations, leaf_node, reward,
                   phases>>

\* reward = self.simulate(&leaf_node)
SearchSimulate ==
    /\ pc = "simulate"
    /\ reward' = simulate(nodes, leaf_node)
    /\ phases' = Append(phases, [phase |-> "simulate", node |-> leaf_node,
                                 visits |-> nodes[leaf_node].visits,
                                 ret |-> None])
    /\ last' = Op("simulate", leaf_node, 0, simulate(nodes, leaf_node), <<>>)
    /\ pc' = "backpropagate"
    /\ UNCHANGED <<nodes, size, learning_rate, iterations, leaf_node>>

\* self.backpropagate(&mut leaf_node, reward); the round ends.  The call
\* leaves the caller's handle at the root, and the round drops it.
SearchBackpropagate ==
    /\ pc = "backpropagate"
    /\ nodes' = backpropagate(nodes, leaf_node, reward)
    /\ phases' = Append(phases, [phase |-> "backpropagate", node |-> leaf_node,
                                 visits |-> nodes[leaf_node].visits,
                                 ret |-> None])
    /\ last' = Op("backpropagate", leaf_node, reward, None, <<>>)
    /\ leaf_node' = None
    /\ reward' = 0
    /\ iterations' = iterations - 1
    /\ pc' = "loop"
    /\ UNCHANGED <<size, learning_rate>>

\* The loop is over: return self.root.best_child().
SearchReturn ==
    /\ pc = "loop"
    /\ iterations = 0
    /\ last' = Op("search", Root, 0, best_child(nodes, Root), <<>>)
    /\ phases' = <<>>
    /\ pc' = "idle"
    /\ UNCHANGED <<nodes, size, learning_rate, iterations, leaf_node, reward>>

\* The calls that build the tree and its statistics.
Build ==
    \/ \E p \in 1..Len(nodes) : AddNode(p)
    \/ \E n \in 1..Len(nodes) : Expand(n)
    \/ \E n \in 1..Len(nodes), value \in Values : Backpropagate(n, value)

\* The calls that only read the tree.
Query ==
    \/ Select
    \/ \E n \in 1..Len(nodes) : Simulate(n)
    \/ \E n \in 1..Len(nodes) : BestChild(n)

\* A call of search, one phase of one round at a time.
SearchCall(max_visits, max_nodes) ==
    \/ \E n \in 0..MaxIterations : SearchBegin(n)
    \/ SearchSelect(max_visits)
    \/ SearchExpand(max_nodes)
    \/ SearchNoExpand
    \/ SearchSimulate
    \/ SearchBackpropagate
    \/ SearchReturn

\* Any sequence of add_node, expand, backpropagate and search calls.
Next ==
    \/ Build
    \/ SearchCall(MaxVisits, MaxNodes)

Spec == Init /\ [][Next]_vars

\* Any sequence of add_node, expand and backpropagate calls, and the
\* reading calls on the trees they build.
NextQuery ==
    \/ Build
    \/ Query

SpecQuery == Init /\ [][NextQuery]_vars

\* The calls of search alone, from a new tree.
NextSearch == SearchCall(MaxSearchVisits, MaxSearchNodes)

SpecSearch == Init /\ [][NextSearch]_vars

\* ------------------------------------------------------------- notions
\* How often x occurs in the sequence seq.
Count(seq, x) == Cardinality({i \in DOMAIN seq : seq[i] = x})

Ids == 1..Len(nodes)

\* The node n and its ancestors, following the parent links of ns.
PathToRoot(ns, n) ==
    LET up[k \in 0..Len(ns)] ==
            IF k = 0 THEN {n}
            ELSE LET prev == up[k - 1]
                 IN  prev \cup ({ns[m].parent : m \in prev} \ {None})
    IN  up[Len(ns)]

\* The nodes the children sequences reach from the root.
Reachable(ns) ==
    LET down[k \in 0..Len(ns)] ==
            IF k = 0 THEN {Root}
            ELSE LET prev == down[k - 1]
                 IN  prev \cup
                     UNION {{ns[m].children[i] : i \in DOMAIN ns[m].children} :
                            m \in prev}
    IN  down[Len(ns)]

\* The number of actions a state still offers.
UntriedActions(s) == s.actions

\* A node that was never visited carries no reward (what score relies on).
UnvisitedHasNoReward ==
    \A n \in Ids : nodes[n].visits = 0 => nodes[n].total_reward = 0

BackpropagateUpdatesPath ==
    [][last'.op = "backpropagate" =>
         LET path == PathToRoot(nodes, last'.node)
         IN
         /\ Len(nodes') = Len(nodes)
         /\ Root \in path
         /\ \A n \in Ids :
               IF n \in path
               THEN /\ nodes'[n].total_reward = nodes[n].total_reward + last'.value
                    /\ nodes'[n].visits = nodes[n].visits + 1
               ELSE /\ nodes'[n].total_reward = nodes[n].total_reward
                    /\ nodes'[n].visits = nodes[n].visits]_vars

\* A non-zero value was backpropagated from depth 2 past a sibling.
BackpropagateUpdatesPathWitness ==
    /\ last.op = "backpropagate"
    /\ last.value # 0
    /\ parent(nodes, last.node) # None
    /\ parent(nodes, parent(nodes, last.node)) # None
    /\ PathToRoot(nodes, last.node) # Ids

\* C3: expand on a leaf whose state has N untried actions creates exactly N
\* nodes, all of them children of the leaf with no visits and no reward, and
\* returns the first of them, or nothing when N = 0.
ExpandLeaf ==
    [][(last'.op = "expand" /\ Len(nodes[last'.node].children) = 0) =>
         LET leaf == last'.node
             N == UntriedActions(nodes[leaf].state)
         IN  /\ Len(nodes') = Len(nodes) + N
             /\ size' = size + N
             /\ Len(nodes'[leaf].children) = N
             /\ \A i \in 1..N :
                   LET c == nodes'[leaf].children[i]
                   IN  /\ c = Len(nodes) + i
                       /\ nodes'[c].visits = 0
                       /\ nodes'[c].total_reward = 0
                       /\ parent(nodes', c) = leaf
             /\ last'.ret = IF N > 0 THEN nodes'[leaf].children[1] ELSE None]_vars

\* A leaf was expanded into two children.
ExpandLeafWitness ==
    /\ last.op = "expand"
    /\ UntriedActions(nodes[last.node].state) >= 2
    /\ Len(nodes[last.node].children) = UntriedActions(nodes[last.node].state)
    /\ last.ret = nodes[last.node].children[1]

\* The children of n that are maximal in total_reward, by position.
MaxPositions(ns, n) ==
    {i \in DOMAIN ns[n].children :
        \A j \in DOMAIN ns[n].children :
            ns[ns[n].children[j]].total_reward <= ns[ns[n].children[i]].total_reward}

Min(S) == CHOOSE x \in S : \A y \in S : x <= y
Max(S) == CHOOSE x \in S : \A y \in S : x >= y

\* C4: the descent of select starts at the root, goes from parent to child
\* down to a leaf, and wherever the node it is at has an unvisited child it
\* steps to an unvisited child.
SelectPrefersUnvisited ==
    last.op = "select" =>
        /\ Len(last.path) >= 1
        /\ last.path[1] = Root
        /\ last.ret = last.path[Len(last.path)]
        /\ Len(nodes[last.ret].children) = 0
        /\ \A i \in 1..(Len(last.path) - 1) :
              /\ Count(nodes[last.path[i]].children, last.path[i + 1]) = 1
              /\ (\E j \in DOMAIN nodes[last.path[i]].children :
                      nodes[nodes[last.path[i]].children[j]].visits = 0)
                 => nodes[last.path[i + 1]].visits = 0

\* select kept the unvisited first child of the root ahead of a visited
\* later sibling with a positive reward.
SelectPrefersUnvisitedWitness ==
    /\ last.op = "select"
    /\ Len(last.path) >= 2
    /\ LET ch == nodes[Root].children
       IN  /\ Len(ch) >= 2
           /\ nodes[ch[1]].visits = 0
           /\ nodes[ch[2]].visits > 0
           /\ nodes[ch[2]].total_reward > 0
           /\ last.path[2] = ch[1]

\* C5 as stated: best_child returns nothing without children, and otherwise
\* the earliest inserted of the children with maximal total_reward.
BestChildEarliestOnTie ==
    last.op = "best_child" =>
        IF Len(nodes[last.node].children) = 0 THEN last.ret = None
        ELSE last.ret = nodes[last.node].children[Min(MaxPositions(nodes, last.node))]

\* C5 amended: best_child returns nothing without children, and otherwise
\* a child with maximal total_reward: the latest inserted of them.
BestChildLatestOnTie ==
    last.op = "best_child" =>
        IF Len(nodes[last.node].children) = 0 THEN last.ret = None
        ELSE /\ Count(nodes[last.node].children, last.ret) = 1
             /\ \A j \in DOMAIN nodes[last.node].children :
                   nodes[nodes[last.node].children[j]].total_reward
                      <= nodes[last.ret].total_reward
             /\ last.ret
                   = nodes[last.node].children[Max(MaxPositions(nodes, last.node))]

\* best_child chose among children two of which tie at the maximum, ahead
\* of a lesser one.
BestChildLatestOnTieWitness ==
    /\ last.op = "best_child"
    /\ Cardinality(MaxPositions(nodes, last.node)) >= 2
    /\ Cardinality(MaxPositions(nodes, last.node)) < Len(nodes[last.node].children)

\* C6: search returns nothing exactly when the root has no children, and
\* otherwise a child of the root whose total_reward no child of the root
\* exceeds.
SearchReturnsBestChild ==
    last.op = "search" =>
        IF Len(nodes[Root].children) = 0 THEN last.ret = None
        ELSE /\ last.ret # None
             /\ Count(nodes[Root].children, last.ret) = 1
             /\ parent(nodes, last.ret) = Root
             /\ \A j \in DOMAIN nodes[Root].children :
                   nodes[nodes[Root].children[j]].total_reward
                      <= nodes[last.ret].total_reward

\* search returned a child of the root that beats a sibling.
SearchReturnsBestChildWitness ==
    /\ last.op = "search"
    /\ last.ret # None
    /\ nodes[Root].visits > 0
    /\ \E j \in DOMAIN nodes[Root].children :
          nodes[nodes[Root].children[j]].total_reward
             < nodes[last.ret].total_reward

\* C9: simulate on a node whose state has K actions left, each of reward R,
\* returns R * K.
SimulateReturnsRK ==
    last.op = "simulate" =>
        last.ret = nodes[last.node].state.action_reward
                      * UntriedActions(nodes[last.node].state)

\* simulate ran a rollout of two steps or more.
SimulateReturnsRKWitness ==
    /\ last.op = "simulate"
    /\ UntriedActions(nodes[last.node].state) >= 2
    /\ last.ret # 0

\* C8 as stated: on every node visits and total_reward never decrease, and
\* a step changes both or neither, inside backpropagate.
StatsGrowTogether ==
    [][\A n \in Ids :
          /\ nodes'[n].visits >= nodes[n].visits
          /\ nodes'[n].total_reward >= nodes[n].total_reward
          /\ (nodes'[n].visits # nodes[n].visits)
                <=> (nodes'[n].total_reward # nodes[n].total_reward)
          /\ nodes'[n].visits # nodes[n].visits => last'.op = "backpropagate"]_vars

\* C8 amended: on every node visits never decreases; only backpropagate
\* changes visits or total_reward, and on a node it touches it adds 1 to
\* visits and the backpropagated value to total_reward; total_reward does
\* not decrease when that value is not negative.
StatsChangeInBackpropagate ==
    [][\A n \in Ids :
          /\ nodes'[n].visits >= nodes[n].visits
          /\ nodes'[n].total_reward # nodes[n].total_reward
                => nodes'[n].visits # nodes[n].visits
          /\ nodes'[n].visits # nodes[n].visits
                => /\ last'.op = "backpropagate"
                   /\ nodes'[n].visits = nodes[n].visits + 1
                   /\ nodes'[n].total_reward = nodes[n].total_reward + last'.value
          /\ (last'.op = "backpropagate" /\ last'.value >= 0)
                => nodes'[n].total_reward >= nodes[n].total_reward]_vars

\* A negative reward was backpropagated by search and a reward of zero too:
\* a visited node below the root still has no reward, the root has less.
StatsChangeInBackpropagateWitness ==
    /\ last.op = "backpropagate"
    /\ last.value = 0
    /\ nodes[last.node].visits > 0
    /\ nodes[last.node].total_reward = 0
    /\ nodes[Root].total_reward < 0

\* The node a round goes on with after its select and optional expand.
Chosen(ph) ==
    IF ph[2].phase = "expand" /\ ph[2].ret # None THEN ph[2].ret ELSE ph[1].node

\* C10: a round of search is select, then expand exactly when the selected
\* node has visits > 0, then one simulate and one backpropagate, both from
\* the first new child when the expansion made one and from the selected
\* node otherwise; nodes are added only by the expansion of a visited node;
\* and every node with children has visits > 0.
SearchRoundPhases ==
    /\ [](\A n \in Ids : Len(nodes[n].children) > 0 => nodes[n].visits > 0)
    /\ [][/\ (pc = "backpropagate" /\ pc' = "loop") =>
                LET ph == phases'
                    k == Len(ph)
                IN  /\ ph[1].phase = "select"
                    /\ Len(nodes[ph[1].node].children) = 0 \/ ph[2].phase = "expand"
                    /\ IF ph[1].visits > 0
                       THEN /\ k = 4
                            /\ ph[2].phase = "expand"
                            /\ ph[2].node = ph[1].node
                       ELSE k = 3
                    /\ ph[k - 1].phase = "simulate"
                    /\ ph[k - 1].node = Chosen(ph)
                    /\ ph[k].phase = "backpropagate"
                    /\ ph[k].node = Chosen(ph)
                    /\ last'.op = "backpropagate"
                    /\ last'.node = Chosen(ph)
          /\ Len(nodes') # Len(nodes) =>
                /\ pc = "selected"
                /\ nodes[leaf_node].visits > 0
                /\ last'.op = "expand"
          /\ (pc = "loop" /\ pc' # "idle") => last'.op = "select"
          /\ pc = "selected" => last'.op \in {"expand", "no_expand"}
          /\ pc = "simulate" => last'.op = "simulate"
          /\ pc = "backpropagate" => last'.op = "backpropagate"]_vars

\* search has run a round that expanded a visited node below the root and
\* went on with its first child, after rounds that expanded nothing.
SearchRoundPhasesWitness ==
    /\ pc = "loop"
    /\ Len(phases) = 4
    /\ phases[2].node # Root
    /\ phases[2].ret # None
    /\ phases[4].node = phases[2].ret
    /\ \E n \in Ids : nodes[n].visits > 0 /\ Len(nodes[n].children) = 0
====
